---- MODULE Spec2Model ----
(***************************************************************************)
(* A model of notebooks/News.ipynb: the News expression (constructor,      *)
(* forward, render) and the two notebook cells that run a pipeline and     *)
(* save its result to results/news.html.                                   *)
(*                                                                         *)
(* The symai framework the notebook imports (Stream, Sequence, the         *)
(* stages, fetch, cluster, map, save) is not among the source files; its   *)
(* operators are modelled after the specification's contracts (sections    *)
(* 4.1, 4.2, 4.3, 5, 6 and 7).                                             *)
(*                                                                         *)
(* A text is a sequence of one-character strings.  A stage is an           *)
(* uninterpreted function string -> string: the string a stage returns is  *)
(* represented by the term [text, applied], the raw chunk and the stage    *)
(* names applied to it so far, innermost first.                            *)
(***************************************************************************)
EXTENDS Naturals, Sequences, FiniteSets

VARIABLES
    render_,      \* self.render_
    filtersArg,   \* the constructor's filters argument, as passed
    stages,       \* the stage names of self.data_stream's Sequence, in order
    template_,    \* self.html_template_seq.template_
    cell,         \* the notebook cell the kernel is executing
    pc,           \* the position inside that cell / inside forward and render
    error,        \* the exception that aborted the cell, "none" if none
    log,          \* the calls made in this invocation, in order
    text,         \* res: the fetched document
    budget,       \* the token budget the Stream computed
    chunks,       \* the chunks the Stream cut the document into
    idx,          \* the index of the chunk being transformed
    stageIdx,     \* the index of the next stage to apply to it
    acc,          \* the accumulated output of the stages applied so far
    vals,         \* vals
    clusters,     \* res = Symbol(vals).cluster()
    sym,          \* sym = res.map()
    tmp,          \* tmp in render
    body,         \* res in render, after the join
    ret,          \* the value forward returned to the cell
    dirExists,    \* whether the directory results/ exists
    file          \* the file results/news.html

ctor == <<render_, filtersArg, stages>>
fsv  == <<dirExists, file>>
strm == <<text, budget, chunks, idx, stageIdx, acc, vals>>
post == <<clusters, sym, tmp, body, ret>>
vars == <<render_, filtersArg, stages, template_, cell, pc, error, log,
          text, budget, chunks, idx, stageIdx, acc, vals,
          clusters, sym, tmp, body, ret, dirExists, file>>

\* ------------------------------------------------------------- bounds

MaxLen == 4

MaxBudget == 3

MaxFilters == 2

\* ------------------------------------------------------------- helpers

Min(a, b) == IF a < b THEN a ELSE b

Max(S) == CHOOSE x \in S : \A y \in S : y <= x

RECURSIVE Concat(_)
Concat(ss) == IF ss = <<>> THEN <<>> ELSE Head(ss) \o Concat(Tail(ss))

Contains(s, x) == \E i \in 1..Len(s) : s[i] = x

\* ------------------------------------------------------------- texts

Alphabet == {"a", "b", ".", " "}

Texts == UNION {[1..n -> Alphabet] : n \in 0..MaxLen}

IsSpace(c) == c = " "

IsBoundary(c) == c = "."

RECURSIVE TrimLeft(_)
TrimLeft(s) ==
    IF s = <<>> THEN <<>>
    ELSE IF IsSpace(Head(s)) THEN TrimLeft(Tail(s)) ELSE s

RECURSIVE TrimRight(_)
TrimRight(s) ==
    IF s = <<>> THEN <<>>
    ELSE IF IsSpace(s[Len(s)]) THEN TrimRight(SubSeq(s, 1, Len(s) - 1)) ELSE s

RECURSIVE StripSpaces(_)
StripSpaces(s) ==
    IF s = <<>> THEN <<>>
    ELSE IF IsSpace(Head(s)) THEN StripSpaces(Tail(s))
         ELSE <<Head(s)>> \o StripSpaces(Tail(s))

TokenEstimate(s) == Len(s)

\* ------------------------------------------------------------- Chunker

\* The cut ignores the budget: it runs to the end of the first sentence.
CutLenNoBudget(s, B) ==
    LET ends == {k \in 1..Len(s) : k = Len(s) \/ IsBoundary(s[k])}
    IN  CHOOSE k \in ends : \A m \in ends : k <= m

\* The length of the next chunk of s (s non-empty, B > 0): greedily the
\* longest prefix within the budget that ends on a sentence boundary or takes
\* all of s; a sentence longer than the budget is cut at the budget.
CutLen(s, B) ==
    LET lim  == Min(B, Len(s))
        ends == {k \in 1..lim : k = Len(s) \/ IsBoundary(s[k])}
    IN  IF ends = {} THEN lim ELSE Max(ends)

RECURSIVE ChunkFrom(_, _)
ChunkFrom(s, B) ==
    LET r == TrimLeft(s)
    IN  IF r = <<>> THEN <<>>
        ELSE LET k == CutLen(r, B)
             IN  <<TrimRight(SubSeq(r, 1, k))>>
                     \o ChunkFrom(SubSeq(r, k + 1, Len(r)), B)

ChunkerFails(s, B) == B <= 0 \/ s = <<>>

Chunker(s, B) == ChunkFrom(s, B)

\* ------------------------------------------------------------- News.__init__

FilterPool == {"ExcludeFilter", "IncludeFilter"}

FilterSeqs == UNION {[1..n -> FilterPool] : n \in 0..MaxFilters}

\* filters as the caller passes it: a list, a tuple, or one expression.
FilterArgs ==
    {[kind |-> k, items |-> fs, expr |-> "none"] :
        k \in {"list", "tuple"}, fs \in FilterSeqs}
    \cup {[kind |-> "expr", items |-> <<>>, expr |-> f] : f \in FilterPool}

NormaliseFilters(arg) ==
    IF arg.kind = "list" \/ arg.kind = "tuple" THEN arg.items ELSE <<arg.expr>>

\* The filters end up after Compose.
StagesFiltersLast(filters) ==
    <<"Clean", "Translate", "Outline", "Compose">> \o filters

Stages(filters) ==
    <<"Clean", "Translate", "Outline">> \o filters \o <<"Compose">>

DefaultTemplate == <<"Template()">>

\* ------------------------------------------------------------- values

Symbol(v) == [value |-> v]

Str(s) == s.value

RawChunk(c) == [text |-> c, applied |-> <<>>]

ApplyStage(name, s) == [s EXCEPT !.applied = Append(@, name)]

NoAcc == RawChunk(<<>>)

NoSym == [items |-> <<>>, labeled |-> FALSE]

NoRet == [kind |-> "none", html |-> <<>>, items |-> <<>>]

NoFile == [exists |-> FALSE, content |-> NoRet]

Event(op, i, j, ok) == [op |-> op, chunk |-> i, stage |-> j, ok |-> ok]

Ops(l, op) == {k \in 1..Len(l) : l[k].op = op}

\* ------------------------------------------------------------- News.render

Placeholder == "{{placeholder}}"

\* What header_style may return: the styled template with the substitution
\* target kept, dropped, or repeated.
HeaderStyles ==
    { <<"<html>", Placeholder, "</html>">>,
      <<"<html>", "</html>">>,
      <<Placeholder, "<hr>", Placeholder>> }

\* str.replace: every occurrence of target is replaced; none is no error.
RECURSIVE Replace(_, _, _)
Replace(s, target, by) ==
    IF s = <<>> THEN <<>>
    ELSE (IF Head(s) = target THEN by ELSE <<Head(s)>>)
             \o Replace(Tail(s), target, by)

\* sep.join(list)
RECURSIVE Join(_, _)
Join(ss, sep) ==
    IF ss = <<>> THEN <<>>
    ELSE IF Len(ss) = 1 THEN Head(ss)
         ELSE Head(ss) \o <<sep>> \o Join(Tail(ss), sep)

\* html_stream(sym): one styled string per item of sym.
HtmlStream(s, template) ==
    [i \in 1..Len(s.items) |-> Symbol(<<"<section>">>)]

SymResult(s) == [kind |-> "sym", html |-> <<>>, items |-> s.items]

HtmlResult(h) == [kind |-> "html", html |-> h, items |-> <<>>]

PaperResult == HtmlResult(<<"<paper>">>)

\* ------------------------------------------------------------- documents

\* What fetch may return: an empty page, one sentence, two sentences and a
\* page of whitespace.
Documents ==
    { <<>>,
      <<"a", ".">>,
      <<"a", ".", " ", "b", ".">>,
      <<" ">> }

Budgets == 1..MaxBudget

\* ------------------------------------------------------------- Init

RunDefaults ==
    /\ text = <<>>
    /\ budget = 0
    /\ chunks = <<>>
    /\ idx = 0
    /\ stageIdx = 0
    /\ acc = NoAcc
    /\ vals = <<>>
    /\ clusters = NoSym
    /\ sym = NoSym
    /\ tmp = Symbol(<<>>)
    /\ body = <<>>
    /\ ret = NoRet

ResetRun ==
    /\ text' = <<>>
    /\ budget' = 0
    /\ chunks' = <<>>
    /\ idx' = 0
    /\ stageIdx' = 0
    /\ acc' = NoAcc
    /\ vals' = <<>>
    /\ clusters' = NoSym
    /\ sym' = NoSym
    /\ tmp' = Symbol(<<>>)
    /\ body' = <<>>
    /\ ret' = NoRet

\* The state after News(url, pattern, filters, render) was constructed, with
\* no cell running and no result file.
Init ==
    /\ render_ \in BOOLEAN
    /\ filtersArg \in FilterArgs
    /\ stages = Stages(NormaliseFilters(filtersArg))
    /\ template_ = DefaultTemplate
    /\ cell = "idle"
    /\ pc = "idle"
    /\ error = "none"
    /\ log = <<>>
    /\ RunDefaults
    /\ dirExists = FALSE
    /\ file = NoFile

\* ------------------------------------------------------------- exceptions

\* The exception is caught and the cell goes on with what it has.
RaiseSwallowed(kind, op, i, j) ==
    /\ error' = kind
    /\ pc' = "returned"
    /\ log' = Append(log, Event(op, i, j, FALSE))

\* A call raises: nothing in forward, render or the cell catches it, so the
\* cell ends there.
Raise(kind, op, i, j) ==
    /\ error' = kind
    /\ pc' = "aborted"
    /\ log' = Append(log, Event(op, i, j, FALSE))

Called(op, i, j) == log' = Append(log, Event(op, i, j, TRUE))

\* ------------------------------------------------------------- News.forward

\* The news cell: expr = Log(Trace(news)); res = expr() enters forward.
NewsCellStart ==
    /\ cell = "idle"
    /\ cell' = "news"
    /\ pc' = "fetch"
    /\ error' = "none"
    /\ log' = <<>>
    /\ ResetRun
    /\ UNCHANGED <<ctor, template_, fsv>>

\* res = self.fetch(url=self.url, pattern=self.pattern)
Fetch ==
    /\ cell = "news" /\ pc = "fetch"
    /\ \E doc \in Documents : text' = doc
    /\ pc' = "stream"
    /\ Called("fetch", 0, 0)
    /\ UNCHANGED <<ctor, template_, cell, error, fsv, post,
                   budget, chunks, idx, stageIdx, acc, vals>>

\* The failure is logged and forward goes on with an empty page's stand-in.
FetchFailContinues ==
    /\ cell = "news" /\ pc = "fetch"
    /\ error' = "FetchFailure"
    /\ text' = <<"a", ".">>
    /\ pc' = "stream"
    /\ log' = Append(log, Event("fetch", 0, 0, FALSE))
    /\ UNCHANGED <<ctor, template_, cell, fsv, post,
                   budget, chunks, idx, stageIdx, acc, vals>>

FetchFail ==
    /\ cell = "news" /\ pc = "fetch"
    /\ Raise("FetchFailure", "fetch", 0, 0)
    /\ UNCHANGED <<ctor, template_, cell, fsv, strm, post>>

\* The loop stops one chunk early.
LoopDoneEarly(i, cs) == i >= Len(cs)

\* for news in self.data_stream(res): the stream has no chunk left.
LoopDone(i, cs) == i > Len(cs)

\* What the loop does on reaching chunk i of cs: leave for the clustering, or
\* hand the raw chunk to the first stage.
EnterChunk(i, cs) ==
    /\ idx' = i
    /\ IF LoopDone(i, cs)
       THEN /\ pc' = "cluster"
            /\ stageIdx' = 0
            /\ acc' = NoAcc
       ELSE /\ pc' = "stage"
            /\ stageIdx' = 1
            /\ acc' = RawChunk(cs[i])

\* self.data_stream(res): the Stream computes the budget and cuts res.
StreamOpen ==
    /\ cell = "news" /\ pc = "stream"
    /\ \E b \in Budgets :
          /\ ~ChunkerFails(text, b)
          /\ budget' = b
          /\ chunks' = Chunker(text, b)
          /\ EnterChunk(1, Chunker(text, b))
    /\ Called("stream", 0, 0)
    /\ UNCHANGED <<ctor, template_, cell, error, fsv, post, text, vals>>

StreamInvalidInput ==
    /\ cell = "news" /\ pc = "stream"
    /\ \E b \in Budgets : ChunkerFails(text, b)
    /\ Raise("InvalidInput", "stream", 0, 0)
    /\ UNCHANGED <<ctor, template_, cell, fsv, strm, post>>

\* The Sequence applies its next stage to the accumulated output.
StageApply ==
    /\ cell = "news" /\ pc = "stage"
    /\ stageIdx <= Len(stages)
    /\ acc' = ApplyStage(stages[stageIdx], acc)
    /\ stageIdx' = stageIdx + 1
    /\ Called("stage", idx, stageIdx)
    /\ UNCHANGED <<ctor, template_, cell, pc, error, fsv, post,
                   text, budget, chunks, idx, vals>>

StageFail ==
    /\ cell = "news" /\ pc = "stage"
    /\ stageIdx <= Len(stages)
    /\ Raise("StageFailure", "stage", idx, stageIdx)
    /\ UNCHANGED <<ctor, template_, cell, fsv, strm, post>>

\* The string is put in front of the list.
CollectedFirst(vs, news) == <<Str(news)>> \o vs

\* vals.append(str(news))
Collected(vs, news) == Append(vs, Str(news))

\* The Stream yields the chunk's result and the loop body collects it.
Collect ==
    /\ cell = "news" /\ pc = "stage"
    /\ stageIdx > Len(stages)
    /\ vals' = Collected(vals, Symbol(acc))
    /\ EnterChunk(idx + 1, chunks)
    /\ UNCHANGED <<ctor, template_, cell, error, log, fsv, post,
                   text, budget, chunks>>

\* res = Symbol(vals).cluster()
Cluster ==
    /\ cell = "news" /\ pc = "cluster"
    /\ clusters' = [items |-> Str(Symbol(vals)), labeled |-> FALSE]
    /\ pc' = "map"
    /\ Called("cluster", 0, 0)
    /\ UNCHANGED <<ctor, template_, cell, error, fsv, strm, sym, tmp, body, ret>>

ClusterFail ==
    /\ cell = "news" /\ pc = "cluster"
    /\ Raise("ClusterFailure", "cluster", 0, 0)
    /\ UNCHANGED <<ctor, template_, cell, fsv, strm, post>>

\* sym = res.map()
Map ==
    /\ cell = "news" /\ pc = "map"
    /\ sym' = [clusters EXCEPT !.labeled = TRUE]
    /\ pc' = "branch"
    /\ Called("map", 0, 0)
    /\ UNCHANGED <<ctor, template_, cell, error, fsv, strm,
                   clusters, tmp, body, ret>>

MapFail ==
    /\ cell = "news" /\ pc = "map"
    /\ Raise("LabelFailure", "map", 0, 0)
    /\ UNCHANGED <<ctor, template_, cell, fsv, strm, post>>

\* The test is inverted.
ReturnsSymInverted == render_

\* if not self.render_
ReturnsSym == ~render_

\* if not self.render_: return sym
ReturnSym ==
    /\ cell = "news" /\ pc = "branch"
    /\ ReturnsSym
    /\ ret' = SymResult(sym)
    /\ pc' = "returned"
    /\ UNCHANGED <<ctor, template_, cell, error, log, fsv, strm,
                   clusters, sym, tmp, body>>

\* return self.render(sym): render is entered.
EnterRender ==
    /\ cell = "news" /\ pc = "branch"
    /\ ~ReturnsSym
    /\ pc' = "style"
    /\ UNCHANGED <<ctor, template_, cell, error, log, fsv, strm, post>>

\* ------------------------------------------------------------- News.render

\* tmp = self.header_style(self.html_template, max_tokens=2000)
\* self.html_template_seq.template_ = str(tmp)
RenderStyle ==
    /\ cell = "news" /\ pc = "style"
    /\ \E t \in HeaderStyles :
          /\ tmp' = Symbol(t)
          /\ template_' = Str(Symbol(t))
    /\ pc' = "html_stream"
    /\ Called("style", 0, 0)
    /\ UNCHANGED <<ctor, cell, error, fsv, strm, clusters, sym, body, ret>>

RenderStyleFail ==
    /\ cell = "news" /\ pc = "style"
    /\ Raise("StyleFailure", "style", 0, 0)
    /\ UNCHANGED <<ctor, template_, cell, fsv, strm, post>>

\* res = '\n'.join([str(s) for s in self.html_stream(sym)])
RenderStream ==
    /\ cell = "news" /\ pc = "html_stream"
    /\ LET out == HtmlStream(sym, template_)
       IN  body' = Join([i \in 1..Len(out) |-> Str(out[i])], "\n")
    /\ pc' = "replace"
    /\ Called("html_stream", 0, 0)
    /\ UNCHANGED <<ctor, template_, cell, error, fsv, strm,
                   clusters, sym, tmp, ret>>

RenderStreamFail ==
    /\ cell = "news" /\ pc = "html_stream"
    /\ Raise("StageFailure", "html_stream", 0, 0)
    /\ UNCHANGED <<ctor, template_, cell, fsv, strm, post>>

\* The header is styled a second time for the wrapper.
RenderReplaceRestyled ==
    /\ cell = "news" /\ pc = "replace"
    /\ \E t \in HeaderStyles :
          /\ tmp' = Symbol(t)
          /\ ret' = HtmlResult(Str(Symbol(Replace(t, Placeholder, body))))
    /\ pc' = "returned"
    /\ log' = Append(Append(log, Event("style", 0, 0, TRUE)),
                     Event("replace", 0, 0, TRUE))
    /\ UNCHANGED <<ctor, template_, cell, error, fsv, strm,
                   clusters, sym, body>>

\* res = Symbol(str(tmp).replace('{{placeholder}}', res)); return res
RenderReplace ==
    /\ cell = "news" /\ pc = "replace"
    /\ ret' = HtmlResult(Str(Symbol(Replace(Str(tmp), Placeholder, body))))
    /\ pc' = "returned"
    /\ Called("replace", 0, 0)
    /\ UNCHANGED <<ctor, template_, cell, error, fsv, strm,
                   clusters, sym, tmp, body>>

\* ------------------------------------------------------------- the cells

\* The paper cell: paper = Paper(path=...); res = expr(n_pages=1)
PaperCellStart ==
    /\ cell = "idle"
    /\ cell' = "paper"
    /\ pc' = "paper"
    /\ error' = "none"
    /\ log' = <<>>
    /\ ResetRun
    /\ UNCHANGED <<ctor, template_, fsv>>

PaperRun ==
    /\ cell = "paper" /\ pc = "paper"
    /\ ret' = PaperResult
    /\ pc' = "returned"
    /\ Called("paper", 0, 0)
    /\ UNCHANGED <<ctor, template_, cell, error, fsv, strm,
                   clusters, sym, tmp, body>>

PaperFail ==
    /\ cell = "paper" /\ pc = "paper"
    /\ Raise("PaperFailure", "paper", 0, 0)
    /\ UNCHANGED <<ctor, template_, cell, fsv, strm, post>>

\* os.makedirs('results', exist_ok=True); path = os.path.abspath(...)
Makedirs ==
    /\ pc = "returned"
    /\ dirExists' = TRUE
    /\ pc' = "save"
    /\ Called("makedirs", 0, 0)
    /\ UNCHANGED <<ctor, template_, cell, error, strm, post, file>>

\* The news cell's res.save(path, replace=False)
NewsSaveReplace == FALSE

\* The cell asks for the file to be overwritten.
PaperSaveReplaceTrue == TRUE

\* The paper cell's res.save(path, replace=False)
PaperSaveReplace == FALSE

SaveReplace == IF cell = "paper" THEN PaperSaveReplace ELSE NewsSaveReplace

\* save fails when the path exists and overwriting is not requested.
SaveRefused(f, replace) == f.exists /\ ~replace

Written(content) == [exists |-> TRUE, content |-> content]

\* res.save(path, replace=False), the path being results/news.html
Save ==
    /\ pc = "save"
    /\ ~SaveRefused(file, SaveReplace)
    /\ file' = Written(ret)
    /\ pc' = "saved"
    /\ Called("save", 0, 0)
    /\ UNCHANGED <<ctor, template_, cell, error, strm, post, dirExists>>

SaveFail ==
    /\ pc = "save"
    /\ SaveRefused(file, SaveReplace)
    /\ Raise("FileExists", "save", 0, 0)
    /\ UNCHANGED <<ctor, template_, cell, fsv, strm, post>>

\* The cell is over, by its last statement or by an exception; the kernel
\* is ready for the next cell.
CellEnd ==
    /\ pc \in {"saved", "aborted"}
    /\ cell' = "idle"
    /\ pc' = "idle"
    /\ error' = "none"
    /\ log' = <<>>
    /\ ResetRun
    /\ UNCHANGED <<ctor, template_, fsv>>

Next ==
    \/ NewsCellStart
    \/ Fetch
    \/ FetchFail
    \/ StreamOpen
    \/ StreamInvalidInput
    \/ StageApply
    \/ StageFail
    \/ Collect
    \/ Cluster
    \/ ClusterFail
    \/ Map
    \/ MapFail
    \/ ReturnSym
    \/ EnterRender
    \/ RenderStyle
    \/ RenderStyleFail
    \/ RenderStream
    \/ RenderStreamFail
    \/ RenderReplace
    \/ PaperCellStart
    \/ PaperRun
    \/ PaperFail
    \/ Makedirs
    \/ Save
    \/ SaveFail
    \/ CellEnd

Spec == Init /\ [][Next]_vars

\* ------------------------------------------------------------- the Chunker alone

\* chunk(text, maxTokens) on every text and budget within the bounds.
InitChunker ==
    /\ render_ = FALSE
    /\ filtersArg = [kind |-> "list", items |-> <<>>, expr |-> "none"]
    /\ stages = Stages(<<>>)
    /\ template_ = DefaultTemplate
    /\ cell = "chunker"
    /\ pc = "chunk"
    /\ error = "none"
    /\ log = <<>>
    /\ text \in Texts
    /\ budget \in 0..MaxBudget
    /\ chunks = <<>>
    /\ idx = 0
    /\ stageIdx = 0
    /\ acc = NoAcc
    /\ vals = <<>>
    /\ clusters = NoSym
    /\ sym = NoSym
    /\ tmp = Symbol(<<>>)
    /\ body = <<>>
    /\ ret = NoRet
    /\ dirExists = FALSE
    /\ file = NoFile

ChunkerApply ==
    /\ cell = "chunker" /\ pc = "chunk"
    /\ ~ChunkerFails(text, budget)
    /\ chunks' = Chunker(text, budget)
    /\ pc' = "chunked"
    /\ UNCHANGED <<ctor, template_, cell, error, log, fsv, post,
                   text, budget, idx, stageIdx, acc, vals>>

ChunkerReject ==
    /\ cell = "chunker" /\ pc = "chunk"
    /\ ChunkerFails(text, budget)
    /\ error' = "InvalidInput"
    /\ pc' = "aborted"
    /\ UNCHANGED <<ctor, template_, cell, log, fsv, strm, post>>

NextChunker == ChunkerApply \/ ChunkerReject

SpecChunker == InitChunker /\ [][NextChunker]_vars

\* ------------------------------------------------------------- the claims

HasOp(op) == Ops(log, op) # {}

Rank(op) ==
    CASE op = "fetch"       -> 1
      [] op = "stream"      -> 2
      [] op = "stage"       -> 3
      [] op = "cluster"     -> 4
      [] op = "map"         -> 5
      [] op = "style"       -> 6
      [] op = "html_stream" -> 7
      [] op = "replace"     -> 8
      [] op = "makedirs"    -> 9
      [] op = "save"        -> 10
      [] OTHER              -> 0

\* C1: in every run of News.forward the calls occur in the order fetch, the
\* stream's stages over all chunks, cluster, map, render.  The clustering is
\* not called before every stage of every chunk has returned and every
\* chunk's string is in vals; map is not called before cluster returned; no
\* call of render is made before map returned.
ForwardStepOrder ==
    cell = "news" =>
        /\ \A k \in 1..Len(log) :
              /\ (k = 1) <=> (log[k].op = "fetch")
              /\ k < Len(log) =>
                    /\ log[k].ok
                    /\ Rank(log[k].op) <= Rank(log[k + 1].op)
              /\ log[k].op = "cluster" =>
                    /\ Len(vals) = Len(chunks)
                    /\ \A i \in 1..Len(chunks), j \in 1..Len(stages) :
                          \E m \in 1..(k - 1) : log[m] = Event("stage", i, j, TRUE)
              /\ log[k].op = "map" =>
                    \E m \in 1..(k - 1) : log[m] = Event("cluster", 0, 0, TRUE)
              /\ log[k].op \in {"style", "html_stream", "replace"} =>
                    \E m \in 1..(k - 1) : log[m] = Event("map", 0, 0, TRUE)
        /\ pc = "cluster" => Len(vals) = Len(chunks)

\* A rendering run over a document of several chunks has returned.
ForwardStepOrderWitness ==
    /\ cell = "news" /\ pc = "returned" /\ render_
    /\ Len(chunks) >= 2
    /\ HasOp("replace")

\* C2: for every chunk and every filters argument (a list, a tuple, or one
\* expression, which stands for the one-element list of it) the chunk's
\* string is the raw chunk with Clean, Translate, Outline, the filters in the
\* order given and Compose applied in that order, each stage working on the
\* output of the stage before it.
GivenFilters ==
    IF filtersArg.kind = "expr" THEN <<filtersArg.expr>> ELSE filtersArg.items

InStageOrder(applied, n) ==
    /\ Len(applied) = n
    /\ \A p \in 1..n :
          applied[p] =
              IF p = 1 THEN "Clean"
              ELSE IF p = 2 THEN "Translate"
              ELSE IF p = 3 THEN "Outline"
              ELSE IF p <= 3 + Len(GivenFilters) THEN GivenFilters[p - 3]
              ELSE "Compose"

StageOrder ==
    cell = "news" =>
        /\ pc = "stage" =>
              /\ acc.text = chunks[idx]
              /\ stageIdx - 1 <= 4 + Len(GivenFilters)
              /\ InStageOrder(acc.applied, stageIdx - 1)
        /\ \A i \in 1..Len(vals) :
              /\ vals[i].text = chunks[i]
              /\ InStageOrder(vals[i].applied, 4 + Len(GivenFilters))

\* Two chunks went through a Sequence built from a tuple of two different
\* filters.
StageOrderWitness ==
    /\ cell = "news" /\ Len(vals) >= 2
    /\ filtersArg.kind = "tuple"
    /\ Len(filtersArg.items) = 2
    /\ filtersArg.items[1] # filtersArg.items[2]

\* One chunk went through a Sequence built from a single expression.
StageOrderSingleSeen ==
    cell = "news" /\ Len(vals) >= 1 /\ filtersArg.kind = "expr"

\* C3: for every non-empty text and every budget > 0 the chunks are
\* non-empty, each chunk's token estimate is within the budget, and the
\* chunks concatenated in index order are the text, whitespace aside.
ChunkerContract ==
    (cell = "chunker" /\ pc = "chunked") =>
        /\ \A i \in 1..Len(chunks) :
              /\ chunks[i] # <<>>
              /\ TokenEstimate(chunks[i]) <= budget
        /\ StripSpaces(Concat(chunks)) = StripSpaces(text)

\* A text with whitespace was cut into several chunks, one of them in the
\* middle of a sentence.
ChunkerContractWitness ==
    /\ cell = "chunker" /\ pc = "chunked"
    /\ Len(chunks) >= 2
    /\ Contains(text, " ")
    /\ \E i \in 1..(Len(chunks) - 1) :
          ~IsBoundary(chunks[i][Len(chunks[i])])

\* C4: when fetch fails, forward ends with that failure and nothing else was
\* done: no chunk, no stage, no cluster, map or render call.
FetchFailureAborts ==
    error = "FetchFailure" =>
        /\ pc = "aborted"
        /\ log = <<Event("fetch", 0, 0, FALSE)>>
        /\ chunks = <<>> /\ vals = <<>> /\ acc = NoAcc
        /\ clusters = NoSym /\ sym = NoSym /\ ret = NoRet

FetchFailureAbortsWitness ==
    cell = "news" /\ error = "FetchFailure" /\ pc = "aborted"

\* C5: when a step of the invocation fails (fetch, the stream, a stage on
\* any chunk, cluster, map, a step of render, the paper's run), the cell ends
\* at that failure: the failed call is the last call made, the save is not
\* reached, and the result file and its directory are as they were; the only
\* step after it ends the cell and leaves the file alone.
AbortPersistsNothing ==
    [][ /\ (error' # "none" /\ error' # "FileExists") =>
              /\ pc' = "aborted"
              /\ file' = file
              /\ dirExists' = dirExists
              /\ ~log'[Len(log')].ok
              /\ \A k \in 1..(Len(log') - 1) : log'[k].ok
              /\ Ops(log', "save") = {} /\ Ops(log', "makedirs") = {}
        /\ pc = "aborted" =>
              /\ cell' = "idle"
              /\ file' = file
              /\ dirExists' = dirExists
      ]_vars

\* A stage failed on a later chunk, after an earlier chunk was transformed
\* and collected, and there is no result file.
AbortPersistsNothingWitness ==
    /\ cell = "news" /\ pc = "aborted" /\ error = "StageFailure"
    /\ idx >= 2 /\ Len(vals) >= 1
    /\ ~file.exists

\* C6: a save with replace=False on an existing results/news.html fails and
\* leaves the file as it is, whichever cells ran before: once the file
\* exists, no step changes it.
SaveNeverOverwrites ==
    [][ /\ file.exists => file' = file
        /\ (pc = "save" /\ file.exists) =>
              /\ pc' = "aborted"
              /\ error' = "FileExists"
      ]_vars

\* The paper cell's save failed on the file the news cell wrote.
SaveNeverOverwritesWitness ==
    /\ cell = "paper" /\ pc = "aborted" /\ error = "FileExists"
    /\ file.exists
    /\ file.content # PaperResult

\* C7, as claimed: when the styled header has no '{{placeholder}}', render
\* fails with RenderFailure and returns no result.
MissingPlaceholderFails ==
    (cell = "news" /\ HasOp("replace") /\ ~Contains(Str(tmp), Placeholder)) =>
        /\ error = "RenderFailure"
        /\ pc = "aborted"
        /\ ret = NoRet

RenderFlagDecides ==
    /\ ~render_ =>
          /\ template_ = DefaultTemplate
          /\ ~HasOp("style") /\ ~HasOp("html_stream") /\ ~HasOp("replace")
          /\ tmp = Symbol(<<>>) /\ body = <<>>
          /\ (cell = "news" /\ ret # NoRet) =>
                /\ sym.labeled
                /\ ret = SymResult(sym)
    /\ (render_ /\ cell = "news" /\ ret # NoRet) =>
          /\ sym.labeled
          /\ HasOp("style") /\ HasOp("html_stream") /\ HasOp("replace")
          /\ LET out == HtmlStream(sym, Str(tmp))
             IN  ret = HtmlResult(Replace(Str(tmp), Placeholder,
                           Join([i \in 1..Len(out) |-> Str(out[i])], "\n")))

\* forward returned the mapped result of a non-rendering News.
RenderFlagDecidesWitness ==
    /\ cell = "news" /\ pc = "returned" /\ ~render_
    /\ Len(ret.items) >= 2
    /\ ret.kind = "sym"

\* forward returned the rendered result of a rendering News.
RenderFlagDecidesRendered ==
    cell = "news" /\ pc = "returned" /\ render_ /\ ret.kind = "html"

====
